---- MODULE Spec2Model ----
(***************************************************************************)
(* A model of factiva/helper (src/src/factiva/helper/index.js): the proxy  *)
(* lookup, the request dispatcher (apiSendRequest / sendRequest), the      *)
(* error translation (handleError) and downloadFile.                       *)
(*                                                                         *)
(* JavaScript values are records tagged by the field t; an object is       *)
(* [t |-> "object", props |-> <record of its own properties>].  A function *)
(* that may throw yields a completion: [type |-> "normal" or "throw",      *)
(* value |-> <the value returned or thrown>].                              *)
(***************************************************************************)
EXTENDS Integers, Sequences, FiniteSets, TLC

VARIABLES
  config,    \* the process-wide configuration store (the `config` module)
  call,      \* the call under way: the function entered and its arguments
  pc,        \* where that call stands
  requests,  \* the requests handed to axios, in order
  outcome,   \* what the caller has got from the call so far
  reply,     \* how axios settled the request
  dirs,      \* the directories that exist on the file system
  stream     \* the write stream and the response body piped into it

vars == <<config, call, pc, requests, outcome, reply, dirs, stream>>

-----------------------------------------------------------------------------
(* JavaScript values *)

undefined == [t |-> "undefined"]
null == [t |-> "null"]
Str(s) == [t |-> "string", s |-> s]
\* a string kept as its sequence of characters, for toUpperCase and trim
Chars(cs) == [t |-> "string", chars |-> cs]
\* a template literal: the string made of the given parts
Concat(parts) == [t |-> "string", concat |-> parts]
Arr(items) == [t |-> "array", items |-> items]
Num(n) == [t |-> "number", n |-> n]
Bool(b) == [t |-> "boolean", b |-> b]
Obj(props) == [t |-> "object", props |-> props]
NoProps == [k \in {} |-> undefined]
EmptyObject == Obj(NoProps)

\* ToBoolean, as `!v`, `v ? a : b` and `if (v)` apply it
truthy(v) ==
  CASE v.t = "undefined" -> FALSE
    [] v.t = "null" -> FALSE
    [] v.t = "string" -> IF "chars" \in DOMAIN v THEN v.chars # <<>>
                         ELSE IF "concat" \in DOMAIN v THEN v.concat # <<>>
                         ELSE v.s # ""
    [] v.t = "number" -> v.n # 0
    [] v.t = "boolean" -> v.b
    [] OTHER -> TRUE

\* the typeof operator
typeOf(v) == IF v.t \in {"null", "array", "error"} THEN "object" ELSE v.t

\* v[key] on a value that is neither null nor undefined
Get(v, key) ==
  IF v.t = "object" /\ key \in DOMAIN v.props THEN v.props[key] ELSE undefined

\* a destructuring default: `key = dflt` in a pattern applied to v
GetOr(v, key, dflt) == IF Get(v, key) = undefined THEN dflt ELSE Get(v, key)

\* { ...a, ...b }: the properties of b after those of a
Spread(a, b) == b @@ a

Normal(v) == [type |-> "normal", value |-> v]
Throw(e) == [type |-> "throw", value |-> e]

\* an Error object; message is the sequence of the parts of its text
Error(name, message) == [t |-> "error", name |-> name, message |-> message]

-----------------------------------------------------------------------------
(* Config/Env accessor *)

\* Object.keys(v): throws on null and undefined, no own keys on a primitive
ObjectKeys(v) ==
  IF v.t \in {"undefined", "null"}
    THEN Throw(Error("TypeError", <<"Cannot convert undefined or null to object">>))
    ELSE Normal(IF v.t = "object" THEN DOMAIN v.props ELSE {})

loadEnvVariable(store, configKey) ==
  LET tmpVal == Get(store, configKey) IN
  IF ~truthy(tmpVal)
    THEN Throw(Error("ReferenceError", <<"Environment Variable ", configKey, " not found!">>))
    ELSE Normal(tmpVal)

\* the body of the try block of getProxyConfiguration: the completion of the
\* block and the value `options` holds when the block is left
ProxyTryBlock(store) ==
  LET loaded == loadEnvVariable(store, "proxy") IN
  IF loaded.type = "throw" THEN [completion |-> loaded, options |-> null]
  ELSE
    LET block == loaded.value
        use == GetOr(block, "use", Bool(FALSE))
        protocol == GetOr(block, "protocol", Str(""))
        host == GetOr(block, "host", Str(""))
        port == GetOr(block, "port", Str(""))
        auth == GetOr(block, "auth", EmptyObject)
        base == Obj([protocol |-> protocol, host |-> host, port |-> port])
        keys == ObjectKeys(auth)
    IN
    IF ~truthy(use) THEN [completion |-> Normal(undefined), options |-> null]
    ELSE IF keys.type = "throw" THEN [completion |-> keys, options |-> base]
    ELSE IF "username" \in keys.value /\ "password" \in keys.value
      THEN [completion |-> Normal(undefined),
            options |-> Obj(Spread(base.props, [auth |-> auth]))]
      ELSE [completion |-> Normal(undefined), options |-> base]

\* a variant that lets the exception of the try block escape
getProxyConfigurationNoCatch(store) ==
  LET r == ProxyTryBlock(store) IN
  IF r.completion.type = "throw" THEN r.completion ELSE Normal(r.options)

\* try { ... } catch (e) {} ; return options
getProxyConfiguration(store) == Normal(ProxyTryBlock(store).options)

-----------------------------------------------------------------------------
(* Error translation *)

\* createError(status, message) of http-errors
createError(status, message) ==
  [t |-> "error", name |-> "HttpError", status |-> status, message |-> message]

RECURSIVE JoinErrors(_)
\* errors.map((error) => `${error.title}: ${error.detail}`).join()
JoinErrors(items) ==
  IF items = <<>> THEN <<>>
  ELSE LET first == <<Get(Head(items), "title").s, ": ", Get(Head(items), "detail").s>> IN
       IF Len(items) = 1 THEN first ELSE first \o <<",">> \o JoinErrors(Tail(items))

\* a variant that looks at the errors array before the status
handleErrorsFirst(err) ==
  LET response == Get(err, "response")
      status == Get(response, "status").n
      errors == Get(Get(response, "data"), "errors") IN
  IF response = undefined
    THEN Throw(Error("TypeError", <<"Cannot read property 'status' of undefined">>))
  ELSE IF truthy(errors)
    THEN Throw(createError(status,
           <<"Unexpected API Error with message: ", Get(response, "statusText").s, ": ">>
             \o JoinErrors(errors.items)))
  ELSE Throw(createError(status,
           <<"Unexpected API Error with message: ", Get(response, "statusText").s, ".">>))

\* the completion of handleError(err): it always throws
handleError(err) ==
  LET response == Get(err, "response") IN
  IF response = undefined
    THEN Throw(Error("TypeError", <<"Cannot read property 'status' of undefined">>))
  ELSE
    LET status == Get(response, "status").n
        data == Get(response, "data") IN
    IF status = 403
      THEN Throw(createError(403, <<"Factiva API-Key does not exist or inactive.">>))
    ELSE IF data.t \in {"undefined", "null"}
      THEN Throw(Error("TypeError", <<"Cannot read property 'errors' of undefined">>))
    ELSE IF truthy(Get(data, "errors"))
      THEN Throw(createError(status,
             <<"Unexpected API Error with message: ", Get(response, "statusText").s, ": ">>
               \o JoinErrors(Get(data, "errors").items)))
    ELSE Throw(createError(status,
             <<"Unexpected API Error with message: ", Get(response, "statusText").s, ".">>))

-----------------------------------------------------------------------------
(* Request dispatcher *)

REQUEST_DEFAULT_TYPE == Str("json")
REQUEST_STREAM_TYPE == Str("stream")

GET == Chars(<<"G", "E", "T">>)
POST == Chars(<<"P", "O", "S", "T">>)
DELETE == Chars(<<"D", "E", "L", "E", "T", "E">>)

UpperChar(c) ==
  CASE c = "g" -> "G" [] c = "e" -> "E" [] c = "t" -> "T" [] c = "p" -> "P"
    [] c = "o" -> "O" [] c = "s" -> "S" [] c = "d" -> "D" [] c = "l" -> "L"
    [] c = "u" -> "U" [] OTHER -> c

\* String.prototype.toUpperCase
toUpperCase(v) == Chars([i \in 1..Len(v.chars) |-> UpperChar(v.chars[i])])

\* JSON.parse on the payload texts the model uses
JSONparse(v) ==
  CASE v = Str("{\"query\":1}") -> Normal(Obj([query |-> Num(1)]))
    [] v = Str("null") -> Normal(null)
    [] OTHER -> Throw(Error("SyntaxError", <<"Unexpected token in JSON">>))

\* fs.createWriteStream(path): the path must be a string
createWriteStream(path) ==
  IF typeOf(path) = "string" THEN Normal(path)
  ELSE Throw(Error("TypeError", <<"The \"path\" argument must be of type string">>))

\* catch (err) { handleError(err); return err; }
CatchClause(err) ==
  LET h == handleError(err) IN IF h.type = "throw" THEN h ELSE Normal(err)

\* how a step of sendRequest ends: thrown, returned, or waiting for axios
Ended(completion) == [type |-> completion.type, value |-> completion.value,
                      request |-> undefined, writer |-> undefined]
Awaiting(request, writer) == [type |-> "await", value |-> undefined,
                              request |-> request, writer |-> writer]

\* `data` after the payload block of sendRequest
PayloadData(method, payload) ==
  IF method = POST /\ truthy(payload)
    THEN IF typeOf(payload) = "object" THEN Normal(payload)
         ELSE IF typeOf(payload) = "string" THEN JSONparse(payload)
         ELSE Throw(Error("Error", <<"Unexpected payload value">>))
    ELSE Normal(undefined)

\* a variant that refuses query parameters for every method but GET
QsParamsCheckNonGet(method, qsParams) ==
  IF method # GET /\ truthy(qsParams)
    THEN Throw(Error("ReferenceError", <<"Unexpected qsParams value">>))
    ELSE Normal(undefined)

\* the first statement of sendRequest
QsParamsCheck(method, qsParams) ==
  IF method = GET /\ truthy(qsParams) /\ typeOf(qsParams) # "object"
    THEN Throw(Error("ReferenceError", <<"Unexpected qsParams value">>))
    ELSE Normal(undefined)

\* the request object sendRequest builds
BuildRequest(method, endpointUrl, params, data, headers, proxy, responseType) ==
  Obj(Spread(Spread(Spread(Spread(Spread(
        [method |-> method, url |-> endpointUrl],
        IF truthy(params) THEN [params |-> params] ELSE NoProps),
        IF truthy(data) THEN [data |-> data] ELSE NoProps),
        IF truthy(headers) THEN [headers |-> headers] ELSE NoProps),
        IF truthy(proxy) THEN [proxy |-> proxy] ELSE NoProps),
        [responseType |-> responseType]))

\* sendRequest(options) up to its first await
sendRequest(options, store) ==
  LET method == Get(options, "method")
      endpointUrl == Get(options, "endpointUrl")
      payload == Get(options, "payload")
      headers == Get(options, "headers")
      qsParams == Get(options, "qsParams")
      responseType == GetOr(options, "responseType", REQUEST_DEFAULT_TYPE)
      fileName == GetOr(options, "fileName", Str("./tmp.csv"))
      checked == QsParamsCheck(method, qsParams)
      data == PayloadData(method, payload)
      proxy == getProxyConfiguration(store)
  IN
  IF checked.type = "throw" THEN Ended(checked)
  ELSE IF data.type = "throw" THEN Ended(data)
  ELSE IF proxy.type = "throw" THEN Ended(proxy)
  ELSE
    LET request == BuildRequest(method, endpointUrl, qsParams, data.value, headers,
                                proxy.value, responseType)
        writer == createWriteStream(fileName)
    IN
    IF responseType = REQUEST_STREAM_TYPE
      THEN IF writer.type = "throw" THEN Ended(CatchClause(writer.value))
           ELSE Awaiting(request, writer.value)
      ELSE Awaiting(request, undefined)

\* a variant that compares the method as the caller wrote it
methUpperAsGiven(method) == method

\* const methUpper = method.toUpperCase()
methUpper(method) == toUpperCase(method)

\* apiSendRequest(options) up to its first await
apiSendRequest(options, store) ==
  LET method == Get(options, "method")
      endpointUrl == Get(options, "endpointUrl")
      headers == GetOr(options, "headers", null)
      qsParams == GetOr(options, "qsParams", null)
      payload == GetOr(options, "payload", null)
      responseType == GetOr(options, "responseType", REQUEST_DEFAULT_TYPE)
      fileName == GetOr(options, "fileName", null)
  IN
  IF ~truthy(headers)
    THEN Ended(Throw(Error("ReferenceError",
                           <<"Headers for Factiva requests cannot be empty">>)))
  ELSE IF typeOf(headers) # "object"
    THEN Ended(Throw(Error("ReferenceError", <<"Unexpected headers value">>)))
  ELSE IF methUpper(method) \notin {POST, GET, DELETE}
    THEN Ended(Throw(Error("ReferenceError", <<"Unexpected method value">>)))
  ELSE sendRequest(Obj([method |-> methUpper(method), endpointUrl |-> endpointUrl,
                        headers |-> headers, params |-> qsParams, payload |-> payload,
                        responseType |-> responseType, fileName |-> fileName]),
                   store)

-----------------------------------------------------------------------------
(* File download helper *)

\* the module's imports bind axios, config, fs, http-errors and the constants:
\* the name `join` that downloadFile uses is bound by none of them
joinImported == FALSE

csv == Chars(<<"c", "s", "v">>)
json == Chars(<<"j", "s", "o", "n">>)
avro == Chars(<<"a", "v", "r", "o">>)
API_EXTRACTION_FILE_FORMATS == {avro, json, csv}

RECURSIVE TrimStart(_)
TrimStart(cs) == IF cs # <<>> /\ Head(cs) = " " THEN TrimStart(Tail(cs)) ELSE cs

RECURSIVE TrimEnd(_)
TrimEnd(cs) ==
  IF cs # <<>> /\ cs[Len(cs)] = " " THEN TrimEnd(SubSeq(cs, 1, Len(cs) - 1)) ELSE cs

\* String.prototype.trim
trim(v) == Chars(TrimEnd(TrimStart(v.chars)))

validateOption(option, validOptions) ==
  IF trim(option) \notin validOptions
    THEN Throw(Error("RangeError", <<"Option value is not within the allowed options">>))
    ELSE Normal(option)

\* the directories that exist after createPathIfNotExist(path)
createPathIfNotExist(existing, path) ==
  IF path \notin existing THEN existing \cup {path} ELSE existing

\* new Date().toISOString()
timeStamp == Str("2020-01-01T00:00:00.000Z")

\* path.join(dir, file)
join(dir, file) == Concat(<<dir, Str("/"), file>>)

\* localFileName as downloadFile computes it
localFileName(args) ==
  LET fileName == IF truthy(Get(args, "addTimestamp"))
                    THEN Concat(<<Get(args, "fileName"), Str("-"), timeStamp>>)
                    ELSE Get(args, "fileName")
  IN join(Get(args, "toSavePath"),
          Concat(<<fileName, Str("."), Get(args, "fileExtension")>>))

\* the directories that exist when downloadFile(args) reaches its first await
\* or throws
downloadFileDirs(args, existing) ==
  IF validateOption(Get(args, "fileExtension"), API_EXTRACTION_FILE_FORMATS).type = "throw"
    THEN existing
    ELSE createPathIfNotExist(existing, Get(args, "toSavePath"))

\* downloadFile(...) up to its first await
downloadFile(args, store) ==
  LET valid == validateOption(Get(args, "fileExtension"), API_EXTRACTION_FILE_FORMATS) IN
  IF valid.type = "throw" THEN Ended(valid)
  ELSE IF ~joinImported
    THEN Ended(Throw(Error("ReferenceError", <<"join is not defined">>)))
  ELSE sendRequest(Obj([method |-> GET, endpointUrl |-> Get(args, "fileUrl"),
                        headers |-> Get(args, "headers"),
                        responseType |-> REQUEST_STREAM_TYPE,
                        fileName |-> localFileName(args)]),
                   store)

\* what the caller of `fn` gets when the promise of sendRequest settles with
\* the completion c: downloadFile returns localFileName, apiSendRequest the
\* response itself
Deliver(fn, args, c) ==
  IF fn = "downloadFile" /\ c.type = "normal" THEN Normal(localFileName(args)) ELSE c

-----------------------------------------------------------------------------
(* Inputs *)

MaxChunks == 2   \* chunks in a streamed response body
MaxErrors == 2   \* entries in the errors array of a failure body

\* the records with the property `key` among vals, or without it
Opt(key, vals) == {NoProps} \cup {key :> v : v \in vals}
Req(key, vals) == {key :> v : v \in vals}

AuthBlocks ==
  {null, Str("demo:demo")} \cup
  {Obj(u @@ p) : u \in Opt("username", {Str(""), Str("demo")}),
                 p \in Opt("password", {Str(""), Str("demo")})}

ProxyBlocks ==
  {null, Bool(FALSE), Str(""), Str("http://proxy")} \cup
  {Obj(u @@ n @@ a) :
     u \in Opt("use", {Bool(FALSE), Bool(TRUE), Str("yes")}),
     n \in {NoProps, [protocol |-> Str("https"), host |-> Str("proxy"), port |-> Num(8080)]},
     a \in Opt("auth", AuthBlocks)}

\* every state of the configuration store the proxy lookup can meet
AllConfigs == {Obj(p) : p \in Opt("proxy", ProxyBlocks)}

\* the store without a proxy block, and with a proxy in use
FewConfigs ==
  {Obj(NoProps),
   Obj([proxy |-> Obj([use |-> Bool(TRUE), protocol |-> Str("https"),
                       host |-> Str("proxy"), port |-> Num(8080)])])}

Url == Str("https://api.dowjones.com/alpha/extractions")
SomeHeaders == Obj([userkey |-> Str("abc")])
SomeParams == Obj([limit |-> Num(1)])
SomePayload == Obj([query |-> Num(1)])

Methods ==
  {GET, Chars(<<"g", "e", "t">>), Chars(<<"G", "e", "t">>),
   POST, Chars(<<"p", "o", "s", "t">>),
   DELETE, Chars(<<"d", "e", "l", "e", "t", "e">>),
   Chars(<<"P", "U", "T">>), Chars(<<"p", "u", "t">>), Chars(<<"G", "E", "T", "S">>)}

PayloadValues ==
  {null, SomePayload, Str("{\"query\":1}"), Str("{query"), Num(5)}

\* the option objects callers hand to apiSendRequest
ApiOptions ==
  {Obj(m @@ [endpointUrl |-> Url] @@ h @@ q @@ b @@ r @@ f) :
     m \in Req("method", Methods),
     h \in Opt("headers", {null, EmptyObject, SomeHeaders, Str(""), Str("userkey")}),
     q \in Opt("qsParams", {SomeParams, Str("limit=1")}),
     b \in Opt("payload", PayloadValues),
     r \in Opt("responseType", {REQUEST_STREAM_TYPE}),
     f \in Opt("fileName", {Str("out.csv")})}

\* the option objects sendRequest is entered with
SendOptions ==
  {Obj(m @@ [endpointUrl |-> Url] @@ h @@ q @@ b @@ r @@ f) :
     m \in Req("method", {GET, POST, DELETE}),
     h \in Opt("headers", {SomeHeaders}),
     q \in Opt("qsParams", {null, SomeParams, Str("limit=1")}),
     b \in Opt("payload", PayloadValues),
     r \in Opt("responseType", {REQUEST_STREAM_TYPE}),
     f \in Opt("fileName", {Str("out.csv")})}

\* a few calls of sendRequest, to see what the proxy lookup does to a request
ProbeOptions ==
  {Obj([method |-> m, endpointUrl |-> Url, headers |-> SomeHeaders]) : m \in {GET, POST}}

DownloadArgs ==
  {Obj([fileUrl |-> Url, headers |-> SomeHeaders, fileName |-> Str("snapshot"),
        fileExtension |-> e, toSavePath |-> d, addTimestamp |-> a]) :
     e \in {csv, avro, Chars(<<" ", "c", "s", "v", " ">>), Chars(<<"e", "x", "e">>),
            Chars(<<"C", "S", "V">>)},
     d \in {Str("data"), Str("new")},
     a \in {Bool(FALSE), Bool(TRUE)}}

ErrorEntries ==
  {Obj([title |-> Str("Bad Request"), detail |-> Str("query is required")]),
   Obj([title |-> Str("Quota"), detail |-> Str("limit reached")])}

RECURSIVE SeqsUpTo(_, _)
SeqsUpTo(S, n) ==
  IF n = 0 THEN {<<>>}
  ELSE LET shorter == SeqsUpTo(S, n - 1) IN
       shorter \cup {Append(q, x) : q \in {r \in shorter : Len(r) = n - 1}, x \in S}

\* the bodies of the vendor's failure responses: no body, a JSON object
\* without errors, a JSON object with an errors array
FailureBodies ==
  {Str(""), Obj(NoProps)} \cup
  {Obj([errors |-> Arr(es)]) : es \in SeqsUpTo(ErrorEntries, MaxErrors)}

StatusTexts == (400 :> "Bad Request") @@ (403 :> "Forbidden") @@ (500 :> "Server Error")

\* what axios rejects with: an error with the response of the server, or an
\* error without a response (no connection, time-out)
AxiosErrors ==
  {Obj(NoProps)} \cup
  {Obj([response |-> Obj([status |-> Num(st), statusText |-> Str(StatusTexts[st]),
                          data |-> d])]) :
     st \in DOMAIN StatusTexts, d \in FailureBodies}

OkResponse == Obj([status |-> Num(200), statusText |-> Str("OK")])

-----------------------------------------------------------------------------
(* The calls, the transport and the stream events *)

NoStream == [file |-> undefined, piped |-> FALSE, total |-> 0, remaining |-> 0, buffered |-> 0,
             written |-> 0, ended |-> FALSE, errored |-> FALSE]

Settled(completion) ==
  [state |-> IF completion.type = "throw" THEN "rejected" ELSE "fulfilled",
   value |-> completion.value]

InitWith(configs) ==
  /\ config \in configs
  /\ call = [fn |-> "none", args |-> undefined]
  /\ pc = "idle"
  /\ requests = <<>>
  /\ outcome = [state |-> "none", value |-> undefined]
  /\ reply = [state |-> "none", value |-> undefined]
  /\ dirs = {Str("data")}
  /\ stream = NoStream

Init == InitWith(FewConfigs)

InitProxy == InitWith(AllConfigs)

\* the call runs up to its first await: it has thrown, or a request is with axios
Enter(fn, args, step) ==
  /\ call' = [fn |-> fn, args |-> args]
  /\ IF step.type = "await"
       THEN /\ requests' = Append(requests, step.request)
            /\ stream' = [stream EXCEPT !.file = step.writer]
            /\ outcome' = [state |-> "pending", value |-> undefined]
            /\ pc' = "awaiting"
       ELSE /\ requests' = requests
            /\ stream' = stream
            /\ outcome' = Settled([type |-> step.type, value |-> step.value])
            /\ pc' = "done"
  /\ UNCHANGED <<config, reply>>

ApiSendRequestCall ==
  /\ pc = "idle"
  /\ \E o \in ApiOptions :
       Enter("apiSendRequest", o, apiSendRequest(o, config)) /\ UNCHANGED dirs

SendRequestCall ==
  /\ pc = "idle"
  /\ \E o \in SendOptions :
       Enter("sendRequest", o, sendRequest(o, config)) /\ UNCHANGED dirs

ProbeSendRequestCall ==
  /\ pc = "idle"
  /\ \E o \in ProbeOptions :
       Enter("sendRequest", o, sendRequest(o, config)) /\ UNCHANGED dirs

DownloadFileCall ==
  /\ pc = "idle"
  /\ \E a \in DownloadArgs :
       /\ Enter("downloadFile", a, downloadFile(a, config))
       /\ dirs' = downloadFileDirs(a, dirs)

GetProxyConfigurationCall ==
  /\ pc = "idle"
  /\ call' = [fn |-> "getProxyConfiguration", args |-> undefined]
  /\ outcome' = Settled(getProxyConfiguration(config))
  /\ pc' = "done"
  /\ UNCHANGED <<config, requests, reply, dirs, stream>>

Streamed == requests # <<>> /\ Get(requests[Len(requests)], "responseType") = REQUEST_STREAM_TYPE

\* axios resolves: the buffered response is returned; the streamed body is
\* piped to the writer and the promise waits for the body's events
AxiosResolve ==
  /\ pc = "awaiting"
  /\ IF Streamed
       THEN \E n \in 0..MaxChunks :
              /\ stream' = [stream EXCEPT !.piped = TRUE, !.total = n, !.remaining = n]
              /\ pc' = "streaming"
              /\ UNCHANGED outcome
       ELSE /\ outcome' = Settled(Deliver(call.fn, call.args, Normal(OkResponse)))
            /\ pc' = "done"
            /\ UNCHANGED stream
  /\ reply' = [state |-> "resolved", value |-> OkResponse]
  /\ UNCHANGED <<config, call, requests, dirs>>

\* axios rejects: the catch clause of sendRequest runs
AxiosReject ==
  /\ pc = "awaiting"
  /\ \E err \in AxiosErrors :
       /\ reply' = [state |-> "rejected", value |-> err]
       /\ outcome' = Settled(Deliver(call.fn, call.args, CatchClause(err)))
  /\ pc' = "done"
  /\ UNCHANGED <<config, call, requests, dirs, stream>>

\* the body emits 'data': pipe hands the chunk to the write stream
BodyData ==
  /\ pc = "streaming"
  /\ stream.remaining > 0
  /\ stream' = [stream EXCEPT !.remaining = @ - 1, !.buffered = @ + 1]
  /\ UNCHANGED <<config, call, pc, requests, outcome, reply, dirs>>

\* the write stream writes a buffered chunk to the file
WriterFlush ==
  /\ stream.buffered > 0
  /\ stream' = [stream EXCEPT !.buffered = @ - 1, !.written = @ + 1]
  /\ UNCHANGED <<config, call, pc, requests, outcome, reply, dirs>>

\* the body emits 'end' once it has been read: resolve()
BodyEnd ==
  /\ pc = "streaming"
  /\ stream.remaining = 0
  /\ stream' = [stream EXCEPT !.ended = TRUE]
  /\ outcome' = Settled(Deliver(call.fn, call.args, Normal(undefined)))
  /\ pc' = "done"
  /\ UNCHANGED <<config, call, requests, reply, dirs>>

\* the body emits 'error': reject()
BodyError ==
  /\ pc = "streaming"
  /\ stream' = [stream EXCEPT !.errored = TRUE]
  /\ outcome' = Settled(Throw(undefined))
  /\ pc' = "done"
  /\ UNCHANGED <<config, call, requests, reply, dirs>>

Next ==
  \/ ApiSendRequestCall
  \/ SendRequestCall
  \/ DownloadFileCall
  \/ GetProxyConfigurationCall
  \/ AxiosResolve
  \/ AxiosReject
  \/ BodyData
  \/ WriterFlush
  \/ BodyEnd
  \/ BodyError

Spec == Init /\ [][Next]_vars

NextProxy ==
  \/ GetProxyConfigurationCall
  \/ ProbeSendRequestCall
  \/ AxiosResolve
  \/ AxiosReject

SpecProxy == InitProxy /\ [][NextProxy]_vars

-----------------------------------------------------------------------------
(* Properties *)

Range(q) == {q[i] : i \in DOMAIN q}
Arg(key) == Get(call.args, key)
Issued == requests # <<>>
LastRequest == requests[Len(requests)]
RejectedWith(name, text) ==
  /\ pc = "done"
  /\ outcome.state = "rejected"
  /\ outcome.value.t = "error"
  /\ outcome.value.name = name
  /\ outcome.value.message = <<text>>

MissingHeaders == RejectedWith("ReferenceError", "Headers for Factiva requests cannot be empty")
UnsupportedMethod == RejectedWith("ReferenceError", "Unexpected method value")
UnexpectedQsParams == RejectedWith("ReferenceError", "Unexpected qsParams value")

\* C1: every call of apiSendRequest whose headers are omitted, null or an
\* empty mapping fails with the missing-headers error, and no request is issued.
C1_MissingHeaders ==
  (call.fn = "apiSendRequest" /\ Arg("headers") \in {undefined, null, EmptyObject})
    => (MissingHeaders /\ ~Issued)

LowerChar(c) ==
  CASE c = "G" -> "g" [] c = "E" -> "e" [] c = "T" -> "t" [] c = "P" -> "p"
    [] c = "O" -> "o" [] c = "S" -> "s" [] c = "D" -> "d" [] c = "L" -> "l"
    [] c = "U" -> "u" [] OTHER -> c
Folded(v) == [i \in 1..Len(v.chars) |-> LowerChar(v.chars[i])]
SupportedFolded ==
  {<<"g", "e", "t">>, <<"p", "o", "s", "t">>, <<"d", "e", "l", "e", "t", "e">>}
HeadersAccepted == truthy(Arg("headers")) /\ typeOf(Arg("headers")) = "object"

\* C2: a call of apiSendRequest with accepted headers fails with the
\* unsupported-method error exactly when its method, letter case ignored, is
\* none of GET, POST, DELETE, and then issues no request; a request that is
\* issued carries the caller's method in upper case.
C2_MethodCheck ==
  (call.fn = "apiSendRequest" /\ HeadersAccepted) =>
    /\ UnsupportedMethod <=> (Folded(Arg("method")) \notin SupportedFolded)
    /\ UnsupportedMethod => ~Issued
    /\ Issued => /\ Get(LastRequest, "method") \in {GET, POST, DELETE}
                 /\ Folded(Get(LastRequest, "method")) = Folded(Arg("method"))

\* a method given in lower case went out as GET
C2_Witness ==
  /\ call.fn = "apiSendRequest"
  /\ Arg("method") = Chars(<<"g", "e", "t">>)
  /\ Issued
  /\ Get(LastRequest, "method") = GET

ProxyBlock == Get(config, "proxy")
\* the lookup of the proxy block succeeds and its `use` field is truthy
UseEnabled == truthy(ProxyBlock) /\ truthy(Get(ProxyBlock, "use"))
\* the auth block gives a non-empty value for the key
Supplied(key) == truthy(Get(Get(ProxyBlock, "auth"), key))

\* C3: with proxy usage enabled, getProxyConfiguration returns an object of
\* protocol, host and port that has an auth property exactly when both the
\* username and the password are supplied; with either of them missing or
\* the empty string, the object has no auth property.
C3_AuthOnlyWhenSupplied ==
  (call.fn = "getProxyConfiguration" /\ UseEnabled) =>
    /\ outcome.state = "fulfilled"
    /\ outcome.value.t = "object"
    /\ {"protocol", "host", "port"} \subseteq DOMAIN outcome.value.props
    /\ ("auth" \in DOMAIN outcome.value.props)
         <=> (Supplied("username") /\ Supplied("password"))

\* C4: getProxyConfiguration never raises; it returns null exactly when the
\* proxy block is absent (the lookup fails) or its use field is falsy, and an
\* object otherwise; a request of sendRequest carries a proxy field exactly
\* when that result is not null.
C4_ProxyLookup ==
  /\ call.fn = "getProxyConfiguration" =>
       /\ outcome.state = "fulfilled"
       /\ (outcome.value = null) <=> ~UseEnabled
       /\ UseEnabled => outcome.value.t = "object"
  /\ call.fn = "sendRequest" =>
       /\ Issued
       /\ ("proxy" \in DOMAIN LastRequest.props) <=> UseEnabled

\* proxy in use with a null auth block: Object.keys throws inside the try
\* block, and the request still carries the proxy
C4_Witness ==
  /\ call.fn = "sendRequest"
  /\ UseEnabled
  /\ Get(ProxyBlock, "auth") = null
  /\ Issued
  /\ "proxy" \in DOMAIN LastRequest.props

\* C5: in streamed mode the promise is fulfilled only after the whole body
\* has been written to the file, and a stream error rejects it.
C5_ResolvedAfterWritten ==
  /\ (stream.piped /\ outcome.state = "fulfilled") => stream.written = stream.total
  /\ stream.errored => outcome.state = "rejected"

\* C6: when axios rejects, the caller gets an error, never a result: for a
\* failure response with status 403 the fixed API-key error with status 403,
\* whatever the body holds; for another status and a body with an errors
\* array an error with that status and the title and detail of every entry;
\* for any other failure response the generic error with the status and the
\* status text.  (Failure bodies are JSON objects or text.)
C6_ErrorTranslation ==
  reply.state = "rejected" =>
    /\ pc = "done"
    /\ outcome.state = "rejected"
    /\ outcome.value.t = "error"
    /\ LET response == Get(reply.value, "response")
           status == Get(response, "status").n
           errors == Get(Get(response, "data"), "errors")
           e == outcome.value
       IN response # undefined =>
            /\ e.name = "HttpError"
            /\ e.status = status
            /\ IF status = 403
                 THEN e.message = <<"Factiva API-Key does not exist or inactive.">>
                 ELSE IF errors.t = "array"
                   THEN /\ \A i \in DOMAIN errors.items :
                             /\ Get(errors.items[i], "title").s \in Range(e.message)
                             /\ Get(errors.items[i], "detail").s \in Range(e.message)
                        /\ Len(e.message) >= 3 * Len(errors.items)
                   ELSE e.message = <<"Unexpected API Error with message: ",
                                      Get(response, "statusText").s, ".">>

\* a 403 whose body has an errors array was turned into the API-key error
C6_Witness ==
  /\ reply.state = "rejected"
  /\ Get(Get(reply.value, "response"), "status") = Num(403)
  /\ Get(Get(Get(reply.value, "response"), "data"), "errors").t = "array"
  /\ Get(Get(Get(reply.value, "response"), "data"), "errors").items # <<>>
  /\ outcome.state = "rejected"
  /\ outcome.value.status = 403

\* C7: sendRequest fails with the unexpected-query-parameters error, without
\* a request, whenever query parameters are present and the method is not
\* GET; query parameters reach a request only when the method is GET.
C7_QsParamsOnlyWithGet ==
  call.fn = "sendRequest" =>
    /\ (truthy(Arg("qsParams")) /\ Arg("method") # GET) => (UnexpectedQsParams /\ ~Issued)
    /\ (Issued /\ "params" \in DOMAIN LastRequest.props) => Arg("method") = GET

\* C7, amended: sendRequest fails with the unexpected-query-parameters error
\* exactly when the method is GET and the query parameters are truthy but
\* not of type object, and then issues no request; whatever the method, a
\* request that is issued carries the query parameters exactly when they are
\* truthy.
C7_QsParamsTypeCheckedForGet ==
  call.fn = "sendRequest" =>
    /\ UnexpectedQsParams <=>
         (Arg("method") = GET /\ Arg("qsParams").t \in {"string", "number", "boolean"}
            /\ truthy(Arg("qsParams")))
    /\ UnexpectedQsParams => ~Issued
    /\ Issued => IF Arg("qsParams").t \in {"undefined", "null"}
                   THEN "params" \notin DOMAIN LastRequest.props
                   ELSE Get(LastRequest, "params") = Arg("qsParams")

\* a POST went out with the caller's query parameters
C7_Witness ==
  /\ call.fn = "sendRequest"
  /\ Arg("method") = POST
  /\ Arg("qsParams") = SomeParams
  /\ Issued
  /\ Get(LastRequest, "params") = SomeParams

PayloadAccepted ==
  \/ Folded(Arg("method")) # <<"p", "o", "s", "t">>
  \/ ~truthy(Arg("payload"))
  \/ Arg("payload") \in {SomePayload, Str("{\"query\":1}")}

\* C8: apiSendRequest forwards all its parameters: the request carries the
\* caller's URL, headers, query parameters (GET), payload (POST) and response
\* mode, and a streamed call without a file name writes to ./tmp.csv.
C8_ForwardsAll ==
  call.fn = "apiSendRequest" =>
    /\ Issued =>
         /\ Get(LastRequest, "url") = Arg("endpointUrl")
         /\ Get(LastRequest, "headers") = Arg("headers")
         /\ Get(LastRequest, "responseType") = GetOr(call.args, "responseType", Str("json"))
         /\ (Get(LastRequest, "method") = GET /\ Arg("qsParams") = SomeParams)
              => Get(LastRequest, "params") = SomeParams
         /\ (Get(LastRequest, "method") = POST /\ Arg("payload") = SomePayload)
              => Get(LastRequest, "data") = SomePayload
    /\ (/\ HeadersAccepted
        /\ Folded(Arg("method")) \in SupportedFolded
        /\ PayloadAccepted
        /\ Arg("qsParams") = undefined
        /\ Arg("responseType") = Str("stream")
        /\ Arg("fileName") = undefined)
         => (Issued /\ stream.file = Str("./tmp.csv"))

ExtensionAllowed ==
  Arg("fileExtension") \in {csv, avro, Chars(<<" ", "c", "s", "v", " ">>)}

\* C9: downloadFile validates the extension, then ensures the directory, then
\* issues one streamed GET to directory/fileName.extension and returns that
\* path; a refused extension fails with the range error before any directory
\* is created or request issued.
C9_DownloadSteps ==
  call.fn = "downloadFile" =>
    IF ExtensionAllowed
      THEN /\ Arg("toSavePath") \in dirs
           /\ Len(requests) = 1
           /\ Get(LastRequest, "method") = GET
           /\ Get(LastRequest, "responseType") = Str("stream")
           /\ stream.file = localFileName(call.args)
           /\ outcome.state = "fulfilled" => outcome.value = localFileName(call.args)
      ELSE /\ RejectedWith("RangeError", "Option value is not within the allowed options")
           /\ dirs = {Str("data")}
           /\ ~Issued

\* the argument checks of the entry point that was called pass
ChecksPass ==
  /\ PayloadAccepted
  /\ IF call.fn = "apiSendRequest"
       THEN HeadersAccepted /\ Folded(Arg("method")) \in SupportedFolded
       ELSE ~(Arg("method") = GET /\ Arg("qsParams") = Str("limit=1"))

\* C10: a call of sendRequest or apiSendRequest issues at most one request:
\* exactly one when all argument checks pass and none when a check fails; a
\* failure is terminal and reaches the caller as an error.
C10_AtMostOneRequest ==
  call.fn \in {"sendRequest", "apiSendRequest"} =>
    /\ Len(requests) <= 1
    /\ ChecksPass => Len(requests) = 1
    /\ ~ChecksPass => (~Issued /\ pc = "done" /\ outcome.state = "rejected")
    /\ reply.state = "rejected" => (pc = "done" /\ outcome.state = "rejected")

====
